---- MODULE Spec2Model ----
(***************************************************************************)
(* A model of django-rule-model (package rule_model).                      *)
(*                                                                         *)
(*   models.py    PriorityOrderingAbstractModel: the priority bitmask, its *)
(*                update, and the signal handlers that recompute it;       *)
(*                AbstractRuleModel.match.                                 *)
(*   managers.py  BaseRuleManager.match_best.                              *)
(*   validation.py  Validation, the lazy result of a validation.           *)
(*                                                                         *)
(* The concrete rule type the library is exercised with is                 *)
(*                                                                         *)
(*   class Rule(AbstractRuleModel):                                        *)
(*       domain = CharField(null=True)       # custom check_domain         *)
(*       flag   = NullBooleanField()                                       *)
(*       cats   = ManyToManyField(Related)                                 *)
(*       tags   = ManyToManyField(Related)                                 *)
(*                                                                         *)
(* Python values are written as their repr: "None", "True", "False",       *)
(* "'a.x'", "6".  Equality of Python values is then equality of strings.   *)
(***************************************************************************)
EXTENDS Integers, Sequences, FiniteSets, TLC

\* ------------------------------------------------------------------ bounds
NumRules == 1
NumRelated == 2

Rules == 1..NumRules
Related == 1..NumRelated
Handles == {"h1"}

VARIABLES
    psf,         \* priority_sorted_fields of the rule type (class attribute)
    deactivate,  \* deactivate_on_clean_related_m2m of the rule type
    store,       \* the table of rules: pk -> row
    m2m,         \* the through tables: pk -> m2m field -> set of related pks
    related,     \* pks of the related records that exist
    handles,     \* in-memory instances of rules held by the caller
    ev,          \* what the last operation did (writes, signals, raise)
    stream,      \* rules.iterator(): the candidates match_best is given
    kwargs,      \* the context of a match: field -> value
    exclude,     \* exclude_check of the manager
    mb,          \* match_best: position in its loop, selected_rule, result
    mv,          \* the last evaluation of match: verdicts, checkers invoked
    vr           \* a Validation, the last operation on it and its result

ruleVars == <<psf, deactivate, store, m2m, related, handles, ev>>

matchVars == <<stream, kwargs, exclude, mb, mv, vr>>

vars == <<psf, deactivate, store, m2m, related, handles, ev,
          stream, kwargs, exclude, mb, mv, vr>>

\* ------------------------------------------------------------ the rule type
None == "None"

\* _meta.fields of the rule type, in declaration order
MetaFields == <<"id", "priority", "is_active", "domain", "flag">>

\* _meta.many_to_many of the rule type, in declaration order
ManyToMany == <<"cats", "tags">>

Range(s) == {s[i] : i \in 1..Len(s)}

NullBooleanFields == {"flag"}

\* A row of the table and an in-memory instance have the same shape.
\* id = 0 is a handle that holds no instance.
NoInstance == [id |-> 0, priority |-> 0, is_active |-> TRUE,
               domain |-> None, flag |-> None]

NewRow(pk) == [NoInstance EXCEPT !.id = pk]

EmptyRels == [f \in Range(ManyToMany) |-> {}]

\* ---------------------------------------------------------------- Python
\* bool(value) of a scalar
Falsy == {"None", "False", "0", "''"}

\* repr of an int / a bool
IntV(n) == ToString(n)
BoolV(b) == IF b THEN "True" ELSE "False"

\* getattr(self, field) for a field of the rule type; an m2m field gives the
\* related manager, modelled by the set of related pks it would query
GetAttr(obj, rels, field) ==
    CASE field = "id" -> IntV(obj.id)
      [] field = "priority" -> IntV(obj.priority)
      [] field = "is_active" -> BoolV(obj.is_active)
      [] field = "domain" -> obj.domain
      [] field = "flag" -> obj.flag
      [] field \in Range(ManyToMany) -> rels[field]

\* hasattr(self, field)
HasAttr(field) == field \in Range(MetaFields) \cup Range(ManyToMany)

\* ------------------------------------------------- priority (models.py)
check_qs(value) == value # {}

check_default(value) == value \notin Falsy

check_strict(value) == value # None

get_field_checker_default(field) ==
    IF field \in Range(ManyToMany) THEN "check_qs" ELSE "check_default"

\* get_field_checker: FieldDoesNotExist gives is_m2m = False, field_object = None
get_field_checker(field) ==
    IF field \in Range(ManyToMany) THEN "check_qs"
    ELSE IF field \in Range(MetaFields) /\ field \in NullBooleanFields
         THEN "check_strict"
         ELSE "check_default"

check_attr(obj, rels, field) ==
    LET field_value == GetAttr(obj, rels, field)
        checker == get_field_checker(field)
    IN  CASE checker = "check_qs" -> check_qs(field_value)
          [] checker = "check_strict" -> check_strict(field_value)
          [] checker = "check_default" -> check_default(field_value)

RECURSIVE priority_bin_drop_missing(_, _, _)
priority_bin_drop_missing(obj, rels, fields) ==
    IF fields = <<>> THEN <<>>
    ELSE (IF ~HasAttr(Head(fields)) THEN <<>>
          ELSE IF check_attr(obj, rels, Head(fields)) THEN <<"1">> ELSE <<"0">>)
         \o priority_bin_drop_missing(obj, rels, Tail(fields))

\* the rule type defines no _check_priority_<fld>, so the checker is check_attr
priority_bin(obj, rels, fields) ==
    [i \in 1..Len(fields) |->
        IF HasAttr(fields[i]) /\ check_attr(obj, rels, fields[i])
        THEN "1" ELSE "0"]

RECURSIVE ParseBase2(_)
ParseBase2(s) ==
    IF s = <<>> THEN 0
    ELSE 2 * ParseBase2(SubSeq(s, 1, Len(s) - 1))
         + (IF s[Len(s)] = "1" THEN 1 ELSE 0)

\* int(s, 2): ValueError on the empty string
IntBase2(s) ==
    IF s = <<>> THEN [ok |-> FALSE, val |-> 0]
    ELSE [ok |-> TRUE, val |-> ParseBase2(s)]

priority_dec(obj, rels, fields) == IntBase2(priority_bin(obj, rels, fields))

\* type(self).objects.filter(pk=self.pk).update(priority=self.priority)
QsUpdatePriority(st, pk, p) ==
    [r \in DOMAIN st |-> IF r = pk THEN [st[r] EXCEPT !.priority = p] ELSE st[r]]

\* update_priority on instance obj; rels are the rule's through rows now.
\* Result: the instance after the call, the table, the number of priority
\* writes, whether the call raised.
update_priority_no_assign(obj, st, rels, fields) ==
    LET p == priority_dec(obj, rels, fields)
    IN  IF ~p.ok THEN [obj |-> obj, store |-> st, wrote |-> 0, raised |-> TRUE]
        ELSE IF p.val = obj.priority
        THEN [obj |-> obj, store |-> st, wrote |-> 0, raised |-> FALSE]
        ELSE [obj |-> obj,
              store |-> QsUpdatePriority(st, obj.id, p.val),
              wrote |-> 1, raised |-> FALSE]

update_priority_full_save(obj, st, rels, fields) ==
    LET p == priority_dec(obj, rels, fields)
    IN  IF ~p.ok THEN [obj |-> obj, store |-> st, wrote |-> 0, raised |-> TRUE]
        ELSE IF p.val = obj.priority
        THEN [obj |-> obj, store |-> st, wrote |-> 0, raised |-> FALSE]
        ELSE [obj |-> [obj EXCEPT !.priority = p.val],
              store |-> [st EXCEPT ![obj.id] = [obj EXCEPT !.priority = p.val]],
              wrote |-> 1, raised |-> FALSE]

update_priority(obj, st, rels, fields) ==
    LET p == priority_dec(obj, rels, fields)
    IN  IF ~p.ok THEN [obj |-> obj, store |-> st, wrote |-> 0, raised |-> TRUE]
        ELSE IF p.val = obj.priority
        THEN [obj |-> obj, store |-> st, wrote |-> 0, raised |-> FALSE]
        ELSE [obj |-> [obj EXCEPT !.priority = p.val],
              store |-> QsUpdatePriority(st, obj.id, p.val),
              wrote |-> 1, raised |-> FALSE]

\* Model.save() of an instance: every column of its row is written, then
\* post_save runs update_priority_on_post_save
ModelSave(obj, st, rels, fields) ==
    update_priority(obj, [st EXCEPT ![obj.id] = obj], rels, fields)

\* ------------------------------------------- signal wiring (models.py)
\* bind_update_priority_handlers connects m2m_changed / pre_delete /
\* post_delete only for the m2m fields named in priority_sorted_fields
ConnectedM2M(fields) ==
    SelectSeq(ManyToMany, LAMBDA name : name \in Range(fields))

\* the rule model every m2m field of this rule type belongs to
\* (m2m.rel.related_model)
RuleModel == "Rule"

\* list(related_model.objects.filter(**{m2m.name: instance})): fresh
\* instances of the rules that reference rec through field name, by pk
RECURSIVE FilterByM2M(_, _, _, _, _)
FilterByM2M(st, mm, name, rec, pk) ==
    IF pk > NumRules THEN <<>>
    ELSE (IF rec \in mm[pk][name] THEN <<st[pk]>> ELSE <<>>)
         \o FilterByM2M(st, mm, name, rec, pk + 1)

\* save_need_update_priority of the handler made for m2m field name:
\* instance._need_update_priority[related_model] = to_update
save_need_update_priority(ledger, st, mm, name, rec) ==
    LET to_update == FilterByM2M(st, mm, name, rec, 1)
    IN  [k \in DOMAIN ledger \cup {RuleModel} |->
            IF k = RuleModel THEN to_update ELSE ledger[k]]

\* pre_delete of a related record: the handlers run in connection order
RECURSIVE PreDelete(_, _, _, _, _, _)
PreDelete(ledger, st, mm, names, rec, i) ==
    IF i > Len(names) THEN ledger
    ELSE PreDelete(save_need_update_priority(ledger, st, mm, names[i], rec),
                   st, mm, names, rec, i + 1)

\* the through rows of a deleted related record go with it
DropRelated(mm, rec) ==
    [pk \in DOMAIN mm |-> [f \in DOMAIN mm[pk] |-> mm[pk][f] \ {rec}]]

\* the body of the loop of update_priority_on_m2m_model_delete for one
\* instance m; acc carries the table, the signals sent, the writes
DeactivateStep(acc, m, mm, fields, deact, rec) ==
    LET old_priority == m.priority
        up == update_priority(m, acc.store, mm[m.id], fields)
    IN  IF up.raised THEN [acc EXCEPT !.raised = TRUE]
        ELSE IF old_priority # up.obj.priority /\ deact
        THEN LET off == [up.obj EXCEPT !.is_active = FALSE]
                 sv == ModelSave(off, up.store, mm[m.id], fields)
             IN  [store |-> sv.store,
                  sent |-> Append(acc.sent, [rule |-> m.id, related |-> rec]),
                  wrote |-> acc.wrote + up.wrote + sv.wrote,
                  raised |-> sv.raised]
        ELSE [acc EXCEPT !.store = up.store, !.wrote = acc.wrote + up.wrote]

\* for m in v: ...   (an exception ends the loop)
RECURSIVE PostDeleteList(_, _, _, _, _, _, _)
PostDeleteList(acc, v, mm, fields, deact, rec, i) ==
    IF i > Len(v) \/ acc.raised THEN acc
    ELSE PostDeleteList(DeactivateStep(acc, v[i], mm, fields, deact, rec),
                        v, mm, fields, deact, rec, i + 1)

\* update_priority_on_m2m_model_delete: nothing without the ledger attribute
update_priority_on_m2m_model_delete(ledger, st, mm, fields, deact, rec) ==
    LET acc0 == [store |-> st, sent |-> <<>>, wrote |-> 0, raised |-> FALSE]
    IN  IF RuleModel \notin DOMAIN ledger THEN acc0
        ELSE PostDeleteList(acc0, ledger[RuleModel], mm, fields, deact, rec, 1)

\* ------------------------------------------------- match (models.py)
\* params_to_check: [f.name for f in self._meta.fields]
params_to_check == MetaFields

\* kwargs.get(f)
KwargsGet(kw, f) == IF f \in DOMAIN kw THEN kw[f] ELSE None

\* the fields the rule type defines a check_<field> method for
CustomCheckers == {"domain"}

\* check_domain of the rule type: the stored domain equals the value, or it
\* is a pattern ('*.x') the value falls under; a pattern match sets
\* self.domain_match_by_pattern, the flag match_best reads
DomainPatterns == {"'*.x'"}

UnderPattern(pattern, value) ==
    pattern = "'*.x'" /\ value \in {"'a.x'", "'b.x'"}

check_domain(obj, value) ==
    IF obj.domain = value THEN [ok |-> TRUE, by_pattern |-> FALSE]
    ELSE IF obj.domain \in DomainPatterns /\ UnderPattern(obj.domain, value)
    THEN [ok |-> TRUE, by_pattern |-> TRUE]
    ELSE [ok |-> FALSE, by_pattern |-> FALSE]

\* checker(kwargs.get(f)) with checker = check_<f>, or else
\* partial(operator.eq, getattr(self, f))
CheckField_skip_absent(obj, f, kw) ==
    IF f \notin DOMAIN kw THEN [field |-> f, ok |-> TRUE, by_pattern |-> FALSE]
    ELSE IF f \in CustomCheckers
    THEN LET c == check_domain(obj, KwargsGet(kw, f))
         IN  [field |-> f, ok |-> c.ok, by_pattern |-> c.by_pattern]
    ELSE [field |-> f,
          ok |-> (GetAttr(obj, EmptyRels, f) = KwargsGet(kw, f)),
          by_pattern |-> FALSE]

CheckField(obj, f, kw) ==
    IF f \in CustomCheckers
    THEN LET c == check_domain(obj, KwargsGet(kw, f))
         IN  [field |-> f, ok |-> c.ok, by_pattern |-> c.by_pattern]
    ELSE [field |-> f,
          ok |-> (GetAttr(obj, EmptyRels, f) = KwargsGet(kw, f)),
          by_pattern |-> FALSE]

\* the loop of match from position i of params_to_check on: the checks it
\* makes, in order
RECURSIVE MatchFrom_no_exclude(_, _, _, _, _)
MatchFrom_no_exclude(obj, check_all, exclude_check, kw, i) ==
    IF i > Len(params_to_check) THEN <<>>
    ELSE LET c == CheckField(obj, params_to_check[i], kw)
         IN  IF c.ok \/ check_all
             THEN <<c>> \o MatchFrom_no_exclude(obj, check_all, exclude_check,
                                                kw, i + 1)
             ELSE <<c>>

RECURSIVE MatchFrom_no_short_circuit(_, _, _, _, _)
MatchFrom_no_short_circuit(obj, check_all, exclude_check, kw, i) ==
    IF i > Len(params_to_check) THEN <<>>
    ELSE LET f == params_to_check[i]
         IN  IF f \in exclude_check
             THEN MatchFrom_no_short_circuit(obj, check_all, exclude_check,
                                             kw, i + 1)
             ELSE <<CheckField(obj, f, kw)>>
                  \o MatchFrom_no_short_circuit(obj, check_all, exclude_check,
                                                kw, i + 1)

RECURSIVE MatchFrom(_, _, _, _, _)
MatchFrom(obj, check_all, exclude_check, kw, i) ==
    IF i > Len(params_to_check) THEN <<>>
    ELSE LET f == params_to_check[i]
         IN  IF f \in exclude_check
             THEN MatchFrom(obj, check_all, exclude_check, kw, i + 1)
             ELSE LET c == CheckField(obj, f, kw)
                  IN  IF c.ok \/ check_all
                      THEN <<c>> \o MatchFrom(obj, check_all, exclude_check,
                                              kw, i + 1)
                      ELSE <<c>>

\* match(check_all, exclude_check, **kwargs): the result, self.validation,
\* the fields whose checker was invoked (in order), and the flag a pattern
\* match of the domain left on the instance
match(obj, check_all, exclude_check, kw) ==
    LET checks == MatchFrom(obj, check_all, exclude_check, kw, 1)
        idx == 1..Len(checks)
    IN  [result |-> \A k \in idx : checks[k].ok,
         validation |-> [f \in {checks[k].field : k \in idx} |->
                            \A k \in idx : checks[k].field = f => checks[k].ok],
         invoked |-> [k \in idx |-> checks[k].field],
         by_pattern |-> \E k \in idx : checks[k].by_pattern]

\* the table after an evaluation of match on the instance obj: match assigns
\* self.validation, check_domain assigns self.domain_match_by_pattern, and
\* neither calls save(), update() or delete()
StoreAfterMatch_saved(st, obj) ==
    ModelSave(obj, st, EmptyRels, <<"domain", "cats">>).store

StoreAfterMatch(st, obj) == st

\* ------------------------------------------- match_best (managers.py)
\* One pass of the loop body for the candidate at position cur of the stream
\* rules, given the verdict of its match and its pattern flag; 0 is None.
match_best_body_no_tier(rules, selected_rule, cur, matched, by_pattern) ==
    IF ~matched
    THEN [selected_rule |-> selected_rule, returned |-> FALSE, ret |-> 0]
    ELSE IF selected_rule # 0
    THEN IF ~by_pattern
         THEN [selected_rule |-> selected_rule, returned |-> TRUE, ret |-> cur]
         ELSE [selected_rule |-> selected_rule, returned |-> FALSE, ret |-> 0]
    ELSE IF by_pattern
         THEN [selected_rule |-> cur, returned |-> FALSE, ret |-> 0]
         ELSE [selected_rule |-> selected_rule, returned |-> TRUE, ret |-> cur]

match_best_body_le(rules, selected_rule, cur, matched, by_pattern) ==
    IF ~matched
    THEN [selected_rule |-> selected_rule, returned |-> FALSE, ret |-> 0]
    ELSE IF selected_rule # 0
    THEN IF rules[cur].priority <= rules[selected_rule].priority
         THEN [selected_rule |-> selected_rule, returned |-> TRUE,
               ret |-> selected_rule]
         ELSE IF ~by_pattern
         THEN [selected_rule |-> selected_rule, returned |-> TRUE, ret |-> cur]
         ELSE [selected_rule |-> selected_rule, returned |-> FALSE, ret |-> 0]
    ELSE IF by_pattern
         THEN [selected_rule |-> cur, returned |-> FALSE, ret |-> 0]
         ELSE [selected_rule |-> selected_rule, returned |-> TRUE, ret |-> cur]

match_best_body_last_pattern(rules, selected_rule, cur, matched, by_pattern) ==
    IF ~matched
    THEN [selected_rule |-> selected_rule, returned |-> FALSE, ret |-> 0]
    ELSE IF selected_rule # 0
    THEN IF rules[cur].priority < rules[selected_rule].priority
         THEN [selected_rule |-> selected_rule, returned |-> TRUE,
               ret |-> selected_rule]
         ELSE IF ~by_pattern
         THEN [selected_rule |-> selected_rule, returned |-> TRUE, ret |-> cur]
         ELSE [selected_rule |-> cur, returned |-> FALSE, ret |-> 0]
    ELSE IF by_pattern
         THEN [selected_rule |-> cur, returned |-> FALSE, ret |-> 0]
         ELSE [selected_rule |-> selected_rule, returned |-> TRUE, ret |-> cur]

match_best_body(rules, selected_rule, cur, matched, by_pattern) ==
    IF ~matched
    THEN [selected_rule |-> selected_rule, returned |-> FALSE, ret |-> 0]
    ELSE IF selected_rule # 0
    THEN IF rules[cur].priority < rules[selected_rule].priority
         THEN [selected_rule |-> selected_rule, returned |-> TRUE,
               ret |-> selected_rule]
         ELSE IF ~by_pattern
         THEN [selected_rule |-> selected_rule, returned |-> TRUE, ret |-> cur]
         ELSE [selected_rule |-> selected_rule, returned |-> FALSE, ret |-> 0]
    ELSE IF by_pattern
         THEN [selected_rule |-> cur, returned |-> FALSE, ret |-> 0]
         ELSE [selected_rule |-> selected_rule, returned |-> TRUE, ret |-> cur]

\* the return after the loop
match_best_exhausted_none(selected_rule) == 0

match_best_exhausted(selected_rule) == selected_rule

\* ------------------------------------------- Validation (validation.py)
\* The mapping a Validation is built from: field names in declaration order,
\* each with a zero-argument checker.  What a checker returns may depend on
\* how often it was called: first on its first call, later on any other.
CheckerNames == <<"a", "b", "c", "d", "e">>

\* position of a declared name in the OrderedDict, 0 for an undeclared one
KeyIndex(v, item) ==
    IF \E k \in 1..Len(v.checkers) : CheckerNames[k] = item
    THEN CHOOSE k \in 1..Len(v.checkers) : CheckerNames[k] = item
    ELSE 0

\* __init__: self.__checkers = OrderedDict(mapping); self.__validation = {}
ValidationNew(mapping) ==
    [checkers |-> mapping,
     validation |-> [f \in {} |-> FALSE],
     calls |-> [k \in 1..Len(mapping) |-> 0]]

\* self.__checkers[item](): the call and its count
CallChecker(v, k) ==
    [value |-> IF v.calls[k] = 0 THEN v.checkers[k].first
                                 ELSE v.checkers[k].later,
     calls |-> [v.calls EXCEPT ![k] = @ + 1]]

\* __getitem__: the object after the lookup, the value returned, whether
\* KeyError was raised, whether the value came from self.__validation
getitem_no_memo(v, item) ==
    LET k == KeyIndex(v, item)
    IN  IF k = 0
        THEN [v |-> v, value |-> FALSE, raised |-> TRUE, hit |-> FALSE]
        ELSE LET c == CallChecker(v, k)
             IN  [v |-> [v EXCEPT !.calls = c.calls],
                  value |-> c.value, raised |-> FALSE,
                  hit |-> item \in DOMAIN v.validation]

getitem(v, item) ==
    IF item \in DOMAIN v.validation
    THEN [v |-> v, value |-> v.validation[item], raised |-> FALSE, hit |-> TRUE]
    ELSE LET k == KeyIndex(v, item)
         IN  IF k = 0
             THEN [v |-> v, value |-> FALSE, raised |-> TRUE, hit |-> FALSE]
             ELSE LET c == CallChecker(v, k)
                  IN  [v |-> [v EXCEPT
                                !.validation =
                                    [f \in DOMAIN v.validation \cup {item} |->
                                        IF f = item THEN c.value
                                        ELSE v.validation[f]],
                                !.calls = c.calls],
                       value |-> c.value, raised |-> FALSE, hit |-> FALSE]

\* __iter__: iter(self.__checkers), the declared names in order
iter(v) == [k \in 1..Len(v.checkers) |-> CheckerNames[k]]

\* __len__
len(v) == Len(v.checkers)

\* __nonzero__: all(six.itervalues(self)); itervalues looks every key of
\* __iter__ up with __getitem__, and all() stops at the first false value
RECURSIVE nonzero_from(_, _)
nonzero_from(v, k) ==
    IF k > Len(v.checkers) THEN [v |-> v, value |-> TRUE]
    ELSE LET g == getitem(v, iter(v)[k])
         IN  IF ~g.value THEN [v |-> g.v, value |-> FALSE]
             ELSE nonzero_from(g.v, k + 1)

nonzero(v) == nonzero_from(v, 1)

\* ---------------------------------------------------------- operations
\* The caller keeps long-lived instances (Handles); any operation can also
\* be made on an instance fetched for it alone: Rule.objects.get(pk=pk).
Fresh == "fresh"

Callers == Handles \cup {Fresh}

\* the instance caller who operates on, for the rule pk
Instance(who, pk) == IF who = Fresh THEN store[pk] ELSE handles[who]

Holds(who, pk) == IF who = Fresh THEN TRUE ELSE handles[who].id = pk

\* the caller's instance after the operation (a fetched one is dropped)
Keep(who, obj) ==
    IF who = Fresh THEN handles ELSE [handles EXCEPT ![who] = obj]

\* op: "update_priority" for a direct call of it, "delete" for the delete of
\* a related record, "other" for any other operation
Event(op, wrote, sent, raised) ==
    [op |-> op, wrote |-> wrote, sent |-> sent, raised |-> raised]

NoEvent == Event("other", 0, <<>>, FALSE)

NoKwargs == [f \in {} |-> None]

MbIdle == [pc |-> "idle", i |-> 0, selected_rule |-> 0, ret |-> 0]

VOut(op, item, value, raised, hit, keys, n) ==
    [op |-> op, item |-> item, value |-> value, raised |-> raised,
     hit |-> hit, keys |-> keys, n |-> n]

\* no Validation was built: seen is what the caller's lookups returned first
NoValidation ==
    [obj |-> ValidationNew(<<>>), seen |-> [f \in {} |-> FALSE],
     out |-> VOut("new", "", FALSE, FALSE, FALSE, <<>>, 0)]

NoMatch == [rule |-> 0, check_all |-> FALSE, result |-> FALSE,
            validation |-> NoKwargs, invoked |-> <<>>, by_pattern |-> FALSE]

\* priority_sorted_fields the rule type is configured with
PsfChoices == {<<"domain", "cats">>, <<"cats", "tags">>}

\* values the caller assigns to an attribute of an instance
AttrValues(f) ==
    CASE f = "priority" -> {0, 1}
      [] f = "is_active" -> BOOLEAN
      [] f = "domain" -> {None, "'a.x'"}
      [] f = "flag" -> {None, "False"}

Init ==
    /\ psf \in PsfChoices
    /\ deactivate \in BOOLEAN
    /\ store = [pk \in Rules |-> NewRow(pk)]
    /\ m2m = [pk \in Rules |-> EmptyRels]
    /\ related = Related
    /\ handles = [h \in Handles |-> NoInstance]
    /\ ev = NoEvent
    /\ stream = <<>>
    /\ kwargs = NoKwargs
    /\ exclude = {}
    /\ mb = MbIdle
    /\ mv = NoMatch
    /\ vr = NoValidation

\* handle = Rule.objects.get(pk=pk)
Load(h, pk) ==
    /\ handles' = [handles EXCEPT ![h] = store[pk]]
    /\ ev' = Event("other", 0, <<>>, FALSE)
    /\ UNCHANGED <<psf, deactivate, store, m2m, related>>
    /\ UNCHANGED matchVars

\* instance.<f> = v
SetAttr(h, f, v) ==
    /\ handles[h].id # 0
    /\ handles' = [handles EXCEPT ![h][f] = v]
    /\ ev' = Event("other", 0, <<>>, FALSE)
    /\ UNCHANGED <<psf, deactivate, store, m2m, related>>
    /\ UNCHANGED matchVars

\* instance.save()
Save(who, pk) ==
    /\ Holds(who, pk)
    /\ LET r == ModelSave(Instance(who, pk), store, m2m[pk], psf)
       IN  /\ handles' = Keep(who, r.obj)
           /\ store' = r.store
           /\ ev' = Event("other", r.wrote, <<>>, r.raised)
    /\ UNCHANGED <<psf, deactivate, m2m, related>>
    /\ UNCHANGED matchVars

\* m = Rule.objects.get(pk=pk); m.<f> = v; m.save()
EditSave(pk, f, v) ==
    /\ LET obj == [store[pk] EXCEPT ![f] = v]
           r == ModelSave(obj, store, m2m[pk], psf)
       IN  /\ store' = r.store
           /\ ev' = Event("other", r.wrote, <<>>, r.raised)
    /\ UNCHANGED <<psf, deactivate, m2m, related, handles>>
    /\ UNCHANGED matchVars

\* update_priority_on_m2m_changed after the through rows of instance.<name>
\* became rows; the handler is connected only for a priority field
M2MChanged(who, pk, name, rows) ==
    LET obj == Instance(who, pk)
        mm == [m2m EXCEPT ![pk][name] = rows]
        r == IF name \in Range(ConnectedM2M(psf))
             THEN update_priority(obj, store, mm[pk], psf)
             ELSE [obj |-> obj, store |-> store, wrote |-> 0, raised |-> FALSE]
    IN  /\ m2m' = mm
        /\ handles' = Keep(who, r.obj)
        /\ store' = r.store
        /\ ev' = Event("other", r.wrote, <<>>, r.raised)
        /\ UNCHANGED <<psf, deactivate, related>>
        /\ UNCHANGED matchVars

\* instance.<name>.add(rec)
M2MAdd(who, pk, name, rec) ==
    /\ Holds(who, pk)
    /\ rec \in related
    /\ M2MChanged(who, pk, name, m2m[pk][name] \cup {rec})

\* instance.<name>.remove(rec)
M2MRemove(who, pk, name, rec) ==
    /\ Holds(who, pk)
    /\ rec \in related
    /\ M2MChanged(who, pk, name, m2m[pk][name] \ {rec})

\* instance.<name>.clear()
M2MClear(who, pk, name) ==
    /\ Holds(who, pk)
    /\ M2MChanged(who, pk, name, {})

\* instance.update_priority()
UpdatePriority(who, pk) ==
    /\ Holds(who, pk)
    /\ LET r == update_priority(Instance(who, pk), store, m2m[pk], psf)
       IN  /\ handles' = Keep(who, r.obj)
           /\ store' = r.store
           /\ ev' = Event("update_priority", r.wrote, <<>>, r.raised)
    /\ UNCHANGED <<psf, deactivate, m2m, related>>
    /\ UNCHANGED matchVars

\* related_record.delete(): pre_delete, the delete, post_delete
DeleteRelated(rec) ==
    /\ rec \in related
    /\ LET ledger == PreDelete(<<>>, store, m2m, ConnectedM2M(psf), rec, 1)
           mm == DropRelated(m2m, rec)
           r == update_priority_on_m2m_model_delete(ledger, store, mm, psf,
                                                    deactivate, rec)
       IN  /\ m2m' = mm
           /\ related' = related \ {rec}
           /\ store' = r.store
           /\ ev' = Event("delete", r.wrote, r.sent, r.raised)
    /\ UNCHANGED <<psf, deactivate, handles>>
    /\ UNCHANGED matchVars

\* every operation but the assignment of a priority by hand
NextPlain ==
    \/ \E h \in Handles, pk \in Rules : Load(h, pk)
    \/ \E h \in Handles, v \in AttrValues("domain") : SetAttr(h, "domain", v)
    \/ \E who \in Callers, pk \in Rules : Save(who, pk)
    \/ \E pk \in Rules, v \in AttrValues("is_active") :
          EditSave(pk, "is_active", v)
    \/ \E who \in Callers, pk \in Rules, name \in Range(ManyToMany) :
          \E rec \in Related : M2MAdd(who, pk, name, rec)
    \/ \E who \in Callers, pk \in Rules, name \in Range(ManyToMany) :
          \E rec \in Related : M2MRemove(who, pk, name, rec)
    \/ \E who \in Callers, pk \in Rules, name \in Range(ManyToMany) :
          M2MClear(who, pk, name)
    \/ \E who \in Callers, pk \in Rules : UpdatePriority(who, pk)
    \/ \E rec \in Related : DeleteRelated(rec)

Next ==
    \/ NextPlain
    \/ \E h \in Handles, v \in AttrValues("priority") :
          SetAttr(h, "priority", v)

Spec == Init /\ [][Next]_vars

\* A rule type with one many-valued priority field, whose callers never
\* assign a priority by hand.
InitPlain == Init /\ psf = <<"domain", "cats">>

SpecPlain == InitPlain /\ [][NextPlain]_vars

\* ------------------------------------------------------------ matching
\* A specification of the matching path alone.  The candidates are the
\* instances rules.iterator() yields; get_filtered_query of the base manager
\* imposes no order, so a stream comes in any order.  The table holds the
\* rows the candidates were read from.
MaxStream == 3

\* stored priorities of the candidates
Priorities == {4, 6}

Candidates ==
    [id : {0}, priority : Priorities, is_active : {TRUE},
     domain : {"'a.x'", "'*.x'"}, flag : {None, "True"}]

\* the candidate at position k carries pk k
Streams ==
    UNION {{[k \in 1..n |-> [c[k] EXCEPT !.id = k]] : c \in [1..n -> Candidates]}
           : n \in 0..MaxStream}

\* contexts: every field is optional
KwargsChoices ==
    {[f \in S |-> CASE f = "domain" -> d [] f = "flag" -> "True"
                    [] f = "is_active" -> "False"]
        : S \in SUBSET {"domain", "flag", "is_active"},
          d \in {"'a.x'", "'b.x'"}}

\* exclude_check of the manager: the fields its query already filters on
ExcludeChoices ==
    {{}, {"id", "priority", "is_active"},
     {"id", "priority", "is_active", "domain"}}

InitMatch ==
    /\ psf = <<"domain", "cats">>
    /\ deactivate = TRUE
    /\ stream \in Streams
    /\ store = stream
    /\ m2m = [pk \in Rules |-> EmptyRels]
    /\ related = Related
    /\ handles = [h \in Handles |-> NoInstance]
    /\ ev = NoEvent
    /\ kwargs \in KwargsChoices
    /\ exclude \in ExcludeChoices
    /\ mb = MbIdle
    /\ mv = NoMatch
    /\ vr = NoValidation

Evaluation(k, check_all) ==
    LET r == match(stream[k], check_all, exclude, kwargs)
    IN  [rule |-> k, check_all |-> check_all, result |-> r.result,
         validation |-> r.validation, invoked |-> r.invoked,
         by_pattern |-> r.by_pattern]

\* stream[k].match(check_all=check_all, exclude_check=exclude, **kwargs)
MatchCall(k, check_all) ==
    /\ mb.pc = "idle"
    /\ k \in 1..Len(stream)
    /\ mv' = Evaluation(k, check_all)
    /\ mb' = [mb EXCEPT !.pc = "matched"]
    /\ store' = StoreAfterMatch(store, stream[k])
    /\ UNCHANGED <<stream, kwargs, exclude, vr>>
    /\ UNCHANGED <<psf, deactivate, m2m, related, handles, ev>>

\* match_best(**kwargs) up to the loop
MatchBestCall ==
    /\ mb.pc = "idle"
    /\ mb' = [pc |-> "loop", i |-> 1, selected_rule |-> 0, ret |-> 0]
    /\ UNCHANGED <<stream, kwargs, exclude, mv, vr>>
    /\ UNCHANGED ruleVars

\* one pass of the loop of match_best
MatchBestIter ==
    /\ mb.pc = "loop"
    /\ mb.i <= Len(stream)
    /\ LET e == Evaluation(mb.i, FALSE)
           b == match_best_body(stream, mb.selected_rule, mb.i, e.result,
                                e.by_pattern)
       IN  /\ mv' = e
           /\ mb' = IF b.returned
                    THEN [pc |-> "done", i |-> mb.i,
                          selected_rule |-> b.selected_rule, ret |-> b.ret]
                    ELSE [pc |-> "loop", i |-> mb.i + 1,
                          selected_rule |-> b.selected_rule, ret |-> 0]
    /\ store' = StoreAfterMatch(store, stream[mb.i])
    /\ UNCHANGED <<stream, kwargs, exclude, vr>>
    /\ UNCHANGED <<psf, deactivate, m2m, related, handles, ev>>

\* the stream is exhausted
MatchBestExhausted ==
    /\ mb.pc = "loop"
    /\ mb.i > Len(stream)
    /\ mb' = [mb EXCEPT !.pc = "done",
                        !.ret = match_best_exhausted(mb.selected_rule)]
    /\ UNCHANGED <<stream, kwargs, exclude, mv, vr>>
    /\ UNCHANGED ruleVars

NextMatch ==
    \/ \E k \in 1..MaxStream, check_all \in BOOLEAN : MatchCall(k, check_all)
    \/ MatchBestCall
    \/ MatchBestIter
    \/ MatchBestExhausted

SpecMatch == InitMatch /\ [][NextMatch]_vars

\* ------------------------------------------- properties of the matching
\* whether candidate k matches the context, and whether by pattern
Matches(k) == match(stream[k], FALSE, exclude, kwargs).result

ByPattern(k) == match(stream[k], FALSE, exclude, kwargs).by_pattern

Descending(s) ==
    \A i, j \in 1..Len(s) : i < j => s[i].priority >= s[j].priority

Positions == 1..Len(stream)

\* C1: for a stream in descending-priority order, a rule match_best returns
\* matched the context and no matching candidate of the stream has a
\* strictly higher priority than it.
C1_BestHasMaxPriority ==
    (mb.pc = "done" /\ Descending(stream) /\ mb.ret # 0) =>
        /\ Matches(mb.ret)
        /\ \A k \in Positions :
              Matches(k) => stream[k].priority <= stream[mb.ret].priority

\* a pattern match was held, and a matching exact candidate of a lower tier
\* came after it
C1_Witness ==
    /\ mb.pc = "done"
    /\ Descending(stream)
    /\ Len(stream) = 3
    /\ mb.ret = 1
    /\ ByPattern(1)
    /\ \E k \in Positions :
          /\ Matches(k)
          /\ ~ByPattern(k)
          /\ stream[k].priority < stream[1].priority

\* C2: while a pattern match is held, a candidate of the same priority that
\* matches without being a pattern match is returned at once.
C2_ExactBeatsHeldPattern ==
    [][(/\ mb.pc = "loop"
        /\ mb.i \in Positions
        /\ mb.selected_rule # 0
        /\ Matches(mb.i)
        /\ ~ByPattern(mb.i)
        /\ stream[mb.i].priority = stream[mb.selected_rule].priority)
       => (mb'.pc = "done" /\ mb'.ret = mb.i)]_vars

\* stream [B pattern, A exact], both of priority 6: A is returned
C2_Witness ==
    /\ mb.pc = "done"
    /\ Len(stream) = 2
    /\ stream[1].priority = 6
    /\ stream[2].priority = 6
    /\ Matches(1) /\ ByPattern(1)
    /\ Matches(2) /\ ~ByPattern(2)
    /\ mb.selected_rule = 1
    /\ mb.ret = 2

\* C3: a held pattern match is never replaced; a matching pattern candidate
\* of equal priority leaves the loop running with it, and a matching
\* candidate of strictly lower priority makes match_best return it.
C3_HeldPatternKept ==
    [][(mb.pc = "loop" /\ mb.selected_rule # 0) =>
          /\ mb'.selected_rule = mb.selected_rule
          /\ (/\ mb.i \in Positions
              /\ Matches(mb.i)
              /\ ByPattern(mb.i)
              /\ stream[mb.i].priority = stream[mb.selected_rule].priority)
             => (mb'.pc = "loop" /\ mb'.i = mb.i + 1)
          /\ (/\ mb.i \in Positions
              /\ Matches(mb.i)
              /\ stream[mb.i].priority < stream[mb.selected_rule].priority)
             => (mb'.pc = "done" /\ mb'.ret = mb.selected_rule)]_vars

\* stream [B pattern of priority 6, B' pattern of priority 6, C pattern of
\* priority 4]: B is returned when C is reached
C3_Witness ==
    /\ mb.pc = "done"
    /\ Len(stream) = 3
    /\ stream[1].priority = 6 /\ stream[2].priority = 6
    /\ stream[3].priority = 4
    /\ \A k \in Positions : Matches(k) /\ ByPattern(k)
    /\ mb.i = 3
    /\ mb.ret = 1

\* C4: match_best returns None when no candidate matches (an empty stream
\* included), and the held rule when the stream ends while one is held.
C4_NoneOrHeld ==
    mb.pc = "done" =>
        /\ (\A k \in Positions : ~Matches(k)) => mb.ret = 0
        /\ mb.i > Len(stream) => mb.ret = mb.selected_rule

\* the stream ended while a pattern match was held, after a candidate that
\* did not match
C4_Witness ==
    /\ mb.pc = "done"
    /\ mb.i > Len(stream)
    /\ Len(stream) = 2
    /\ ~Matches(2)
    /\ mb.selected_rule = 1
    /\ mb.ret = 1

\* the context with field f given as v
WithKwarg(kw, f, v) ==
    [g \in DOMAIN kw \cup {f} |-> IF g = f THEN v ELSE kw[g]]

\* the instance with another stored value for field f
WithStored(obj, f) ==
    CASE f = "id" -> {[obj EXCEPT !.id = v] : v \in 1..MaxStream}
      [] f = "priority" -> {[obj EXCEPT !.priority = v] : v \in Priorities}
      [] f = "is_active" -> {[obj EXCEPT !.is_active = v] : v \in BOOLEAN}
      [] f = "domain" -> {[obj EXCEPT !.domain = v] :
                             v \in {None, "'a.x'", "'*.x'"}}
      [] f = "flag" -> {[obj EXCEPT !.flag = v] :
                           v \in {None, "True", "False"}}

ContextValues == {None, "True", "False", "'a.x'", "'b.x'", "6"}

\* C9: in an evaluation of match no checker is invoked for a field of
\* exclude_check, no verdict is recorded for it, and the result is the same
\* whatever the stored value and the context value of that field are.
C9_ExcludedNeverChecked ==
    mv.rule # 0 =>
        \A f \in exclude :
            /\ \A k \in 1..Len(mv.invoked) : mv.invoked[k] # f
            /\ f \notin DOMAIN mv.validation
            /\ \A v \in ContextValues, obj \in WithStored(stream[mv.rule], f) :
                  match(obj, mv.check_all, exclude, WithKwarg(kwargs, f, v)).result
                      = mv.result

\* the rule matched although the excluded domain differs from the context's
C9_Witness ==
    /\ mv.rule # 0
    /\ "domain" \in exclude
    /\ "domain" \in DOMAIN kwargs
    /\ ~check_domain(stream[mv.rule], kwargs["domain"]).ok
    /\ mv.result

\* whether field f of obj passes its checker for the value v
Passes(obj, f, v) ==
    IF f = "domain" THEN check_domain(obj, v).ok
    ELSE GetAttr(obj, EmptyRels, f) = v

\* C10 as stated: in the default mode a rule whose every checked field
\* present in the context matches is reported as matching, whatever it
\* stores for the fields the context does not mention.
C10_AbsentFieldsSkipped ==
    (mv.rule # 0 /\ ~mv.check_all) =>
        ((\A f \in DOMAIN kwargs \ exclude :
              Passes(stream[mv.rule], f, kwargs[f]))
         => mv.result)

\* C10 amended: in the default mode a checked field absent from the context
\* is not skipped but checked against None: the rule is reported as matching
\* exactly when every field of params_to_check outside exclude_check passes
\* its checker for the context value, None standing for an absent one, and
\* the first field to fail, absent ones included, gets the verdict False.
C10_AbsentFieldsCheckedAgainstNone ==
    (mv.rule # 0 /\ ~mv.check_all) =>
        LET obj == stream[mv.rule]
            given(f) == IF f \in DOMAIN kwargs THEN kwargs[f] ELSE None
            checked == {f \in Range(params_to_check) : f \notin exclude}
        IN  /\ mv.result <=> \A f \in checked : Passes(obj, f, given(f))
            /\ \A f \in DOMAIN mv.validation :
                  mv.validation[f] <=> Passes(obj, f, given(f))
            /\ ~mv.result =>
                  \E f \in DOMAIN mv.validation : ~mv.validation[f]

\* every field present in the context matches, and the rule is rejected for
\* the flag it stores, which the context does not mention
C10_Witness ==
    /\ mv.rule # 0
    /\ ~mv.check_all
    /\ exclude = {"id", "priority", "is_active"}
    /\ DOMAIN kwargs = {"domain"}
    /\ Passes(stream[mv.rule], "domain", kwargs["domain"])
    /\ stream[mv.rule].flag = "True"
    /\ "flag" \in DOMAIN mv.validation
    /\ ~mv.validation["flag"]
    /\ ~mv.result

\* C20: no step of match_best changes a stored field of a rule, whatever the
\* context and the stream, also when it returns before the stream is
\* exhausted.
C20_MatchBestWritesNothing ==
    [][(MatchBestCall \/ MatchBestIter \/ MatchBestExhausted)
          => store' = store]_vars

\* match_best returned a rule with candidates left in the stream
C20_Witness ==
    /\ mb.pc = "done"
    /\ mb.ret # 0
    /\ mb.i < Len(stream)
    /\ store = stream

\* the fields of params_to_check outside exclude_check, in order
CheckedFields == SelectSeq(params_to_check, LAMBDA f : f \notin exclude)

\* C16: in the default mode an evaluation of match invokes the checkers of
\* the non-excluded fields in order up to the first one that fails, none
\* after it, and returns False there (True when none fails); with check_all
\* it invokes the checker of every non-excluded field exactly once, records
\* a verdict for each and returns the conjunction of the verdicts.
C16_ShortCircuitOrCheckAll ==
    mv.rule # 0 =>
        LET obj == stream[mv.rule]
            ok(k) == Passes(obj, CheckedFields[k], KwargsGet(kwargs, CheckedFields[k]))
            failing == {k \in 1..Len(CheckedFields) : ~ok(k)}
            last == IF mv.check_all \/ failing = {} THEN Len(CheckedFields)
                    ELSE CHOOSE k \in failing : \A j \in failing : k <= j
        IN  /\ mv.invoked = SubSeq(CheckedFields, 1, last)
            /\ DOMAIN mv.validation = {CheckedFields[k] : k \in 1..last}
            /\ \A k \in 1..last : mv.validation[CheckedFields[k]] <=> ok(k)
            /\ mv.result <=> failing = {}
            /\ mv.check_all =>
                  (mv.result <=> \A f \in DOMAIN mv.validation : mv.validation[f])

\* the default mode stopped at a failing domain although the flag, which
\* comes later, would have failed too
C16_Witness ==
    /\ mv.rule # 0
    /\ ~mv.check_all
    /\ exclude = {"id", "priority", "is_active"}
    /\ ~mv.result
    /\ mv.invoked = <<"domain">>
    /\ ~Passes(stream[mv.rule], "flag", KwargsGet(kwargs, "flag"))

\* ------------------------------------------------- priority computation
\* A specification of the priority computation alone: a rule type configured
\* with any order of up to MaxPsfLen names, rows holding any field values
\* with the priority column at its default.
MaxPsfLen == 3

PsfNames == {"domain", "flag", "is_active", "cats", "nofield"}

PsfOrders ==
    {o \in UNION {[1..n -> PsfNames] : n \in 0..MaxPsfLen} :
        \A i, j \in 1..Len(o) : i # j => o[i] # o[j]}

RowChoices(pk) ==
    [id : {pk}, priority : {0}, is_active : BOOLEAN,
     domain : {None, "''", "'a.x'"}, flag : {None, "True", "False"}]

InitPriority ==
    /\ psf \in PsfOrders
    /\ deactivate = TRUE
    /\ \E row \in RowChoices(1) :
          store = [pk \in Rules |-> IF pk = 1 THEN row ELSE NewRow(pk)]
    /\ \E rels \in [Range(ManyToMany) -> {{}, {1}}] :
          m2m = [pk \in Rules |-> IF pk = 1 THEN rels ELSE EmptyRels]
    /\ related = Related
    /\ handles = [h \in Handles |-> NoInstance]
    /\ ev = NoEvent
    /\ stream = <<>>
    /\ kwargs = NoKwargs
    /\ exclude = {}
    /\ mb = MbIdle
    /\ mv = NoMatch
    /\ vr = NoValidation

NextPriority ==
    \/ \E h \in Handles, pk \in Rules : Load(h, pk)
    \/ \E who \in Callers, pk \in Rules : UpdatePriority(who, pk)

SpecPriority == InitPriority /\ [][NextPriority]_vars

\* ------------------------------------- properties of the priority
\* whether a field counts as populated: a many-valued field when its related
\* set is not empty, the tri-state flag when it is not unset, any other field
\* when its value is truthy; a name the rule type does not have never does
Populated(obj, rels, f) ==
    CASE f \in {"cats", "tags"} -> rels[f] # {}
      [] f = "flag" -> obj.flag \in {"True", "False"}
      [] f = "domain" -> obj.domain \notin {None, "''"}
      [] f = "is_active" -> obj.is_active
      [] f = "priority" -> obj.priority # 0
      [] f = "id" -> obj.id # 0
      [] OTHER -> FALSE

RECURSIVE Pow2(_)
Pow2(n) == IF n = 0 THEN 1 ELSE 2 * Pow2(n - 1)

\* the unsigned integer whose binary digits, most significant first, are 1
\* exactly for the populated fields of the order
RECURSIVE BitmaskFrom(_, _, _, _)
BitmaskFrom(obj, rels, fields, i) ==
    IF i > Len(fields) THEN 0
    ELSE (IF Populated(obj, rels, fields[i]) THEN Pow2(Len(fields) - i) ELSE 0)
         + BitmaskFrom(obj, rels, fields, i + 1)

BitmaskValue(obj, rels, fields) == BitmaskFrom(obj, rels, fields, 1)

\* C5: the priority update_priority computes for a rule, whenever it computes
\* one, is the unsigned integer whose binary digits, most significant first,
\* are 1 exactly for the populated fields of priority_sorted_fields.
C5_PriorityIsBitmask ==
    [][\A who \in Callers, pk \in Rules :
          (UpdatePriority(who, pk) /\ ~ev'.raised) =>
              /\ store'[pk].priority = BitmaskValue(store'[pk], m2m'[pk], psf)
              /\ who # Fresh => handles'[who].priority = store'[pk].priority]_vars

\* flag is False (populated), cats has a member, domain is the empty string
\* (not populated): binary 110
C5_Witness ==
    /\ psf = <<"flag", "cats", "domain">>
    /\ ev.op = "update_priority"
    /\ ev.wrote = 1
    /\ store[1].flag = "False"
    /\ m2m[1]["cats"] # {}
    /\ store[1].domain = "''"
    /\ store[1].priority = 6

\* C17 as stated: for a rule type whose priority_sorted_fields is empty,
\* update_priority does not raise and the priority is 0.
C17_EmptyOrderGivesZero ==
    [][\A who \in Callers, pk \in Rules :
          (UpdatePriority(who, pk) /\ psf = <<>>) =>
              /\ ~ev'.raised
              /\ store'[pk].priority = 0]_vars

\* binary digit of n for the power of two e
Bit(n, e) == (n \div Pow2(e)) % 2

\* C18: when priority_sorted_fields names something the rule type does not
\* have, update_priority does not raise, the binary digit at the position of
\* that name is 0, and the digit at the position of every other field is 1
\* exactly when that field is populated.
C18_UnknownNameIsZeroBit ==
    [][\A who \in Callers, pk \in Rules :
          (UpdatePriority(who, pk) /\ \E i \in 1..Len(psf) : ~HasAttr(psf[i]))
          => LET p == IF who = Fresh THEN store'[pk].priority
                      ELSE handles'[who].priority
                 n == Len(psf)
             IN  /\ ~ev'.raised
                 /\ p < Pow2(n)
                 /\ store'[pk].priority = p
                 /\ \A i \in 1..n :
                       Bit(p, n - i) =
                           IF ~HasAttr(psf[i]) THEN 0
                           ELSE IF Populated(Instance(who, pk), m2m[pk], psf[i])
                           THEN 1 ELSE 0]_vars

\* the unknown name stands between two populated fields: binary 101
C18_Witness ==
    /\ psf = <<"domain", "nofield", "cats">>
    /\ ev.op = "update_priority"
    /\ ev.wrote = 1
    /\ ~ev.raised
    /\ store[1].domain = "'a.x'"
    /\ m2m[1]["cats"] # {}
    /\ store[1].priority = 5

\* -------------------------------------- properties of the recomputation
\* caller who saves rule pk or mutates one of its many-valued priority fields
RecomputingBy(who, pk) ==
    \/ Save(who, pk)
    \/ \E name \in Range(ConnectedM2M(psf)), rec \in Related :
          M2MAdd(who, pk, name, rec) \/ M2MRemove(who, pk, name, rec)
    \/ \E name \in Range(ConnectedM2M(psf)) : M2MClear(who, pk, name)

\* rule pk is edited and saved through an instance fetched for it, or a
\* related record it references through a many-valued priority field is
\* deleted
RecomputingFetched(pk) ==
    \/ \E v \in AttrValues("is_active") : EditSave(pk, "is_active", v)
    \/ \E rec \in Related :
          /\ DeleteRelated(rec)
          /\ \E name \in Range(ConnectedM2M(psf)) : rec \in m2m[pk][name]

\* C6 as stated: once a full save, a mutation of a many-valued priority
\* field or the delete of a related record has completed, through any
\* instance of the rule, the stored priority is the bitmask value of the
\* field values of the instance the operation was made through (the row
\* itself for an instance fetched for the operation).
C6_StoredPriorityIsBitmask ==
    [][\A pk \in Rules :
          /\ \A who \in Callers :
                RecomputingBy(who, pk) =>
                    store'[pk].priority =
                        BitmaskValue(IF who = Fresh THEN store'[pk]
                                                    ELSE handles'[who],
                                     m2m'[pk], psf)
          /\ RecomputingFetched(pk) =>
                store'[pk].priority
                    = BitmaskValue(store'[pk], m2m'[pk], psf)]_vars

\* C7: after a call of update_priority on an instance, a second call on it
\* with no field change in between writes nothing to the store and leaves
\* the in-memory and the stored priority as they are.
C7_UpdatePriorityIdempotent ==
    [][\A h \in Handles, pk \in Rules :
          (UpdatePriority(h, pk) /\ ~ev'.raised) =>
              LET second == update_priority(handles'[h], store', m2m'[pk], psf)
              IN  /\ second.wrote = 0
                  /\ second.obj = handles'[h]
                  /\ second.store = store']_vars

\* a direct call on a held instance has just written the priority
C7_Witness ==
    /\ ev.op = "update_priority"
    /\ ev.wrote = 1
    /\ \E h \in Handles :
          /\ handles[h].id # 0
          /\ handles[h].priority = store[handles[h].id].priority
          /\ handles[h].domain # store[handles[h].id].domain

Count(seq, x) == Cardinality({k \in 1..Len(seq) : seq[k] = x})

\* C8 as stated: when a related record that is the last member of a
\* many-valued priority field of a rule is deleted, then, if the rule type
\* auto-deactivates, the stored priority is lower than before, the rule is
\* inactive and one notification carrying the rule and the record was sent;
\* if it does not, the priority is recomputed, is_active is as before and no
\* notification was sent.
C8_LastMemberDeleted ==
    [][\A rec \in Related, pk \in Rules :
          (/\ DeleteRelated(rec)
           /\ \E name \in Range(ConnectedM2M(psf)) : m2m[pk][name] = {rec})
          => IF deactivate
             THEN /\ store'[pk].priority < store[pk].priority
                  /\ ~store'[pk].is_active
                  /\ Count(ev'.sent, [rule |-> pk, related |-> rec]) = 1
             ELSE /\ store'[pk].priority
                        = BitmaskValue(store'[pk], m2m'[pk], psf)
                  /\ store'[pk].is_active = store[pk].is_active
                  /\ ev'.sent = <<>>]_vars

\* C14: a call of update_priority writes nothing but the priority column of
\* the row of its rule: every other column of that row, also one another
\* writer changed after the instance was loaded, and every other row are
\* left as they were.
C14_OnlyPriorityColumnWritten ==
    [][\A who \in Callers, pk \in Rules :
          UpdatePriority(who, pk) =>
              /\ \A f \in {"id", "is_active", "domain", "flag"} :
                    store'[pk][f] = store[pk][f]
              /\ \A r \in Rules \ {pk} : store'[r] = store[r]]_vars

\* update_priority has written the priority of an instance that was loaded
\* before another writer deactivated the rule and whose domain was assigned
\* but not saved: the row is still inactive
C14_Witness ==
    /\ ev.op = "update_priority"
    /\ ev.wrote = 1
    /\ \E h \in Handles :
          LET row == store[handles[h].id]
          IN  /\ handles[h].id # 0
              /\ handles[h].is_active
              /\ ~row.is_active
              /\ handles[h].domain # row.domain
              /\ row.priority = handles[h].priority
              /\ row.priority = BitmaskValue(handles[h], m2m[row.id], psf)
              /\ row.priority # BitmaskValue(row, m2m[row.id], psf)

\* C15 as stated: when a related record is deleted, every rule that
\* referenced it through a many-valued priority field just before has its
\* priority recomputed: once the delete has completed its stored priority is
\* the bitmask value of its row.
C15_EveryDependentRecomputed ==
    [][\A rec \in Related, pk \in Rules :
          (/\ DeleteRelated(rec)
           /\ \E name \in Range(ConnectedM2M(psf)) : rec \in m2m[pk][name])
          => store'[pk].priority = BitmaskValue(store'[pk], m2m'[pk], psf)]_vars

\* C19 as stated: the delete of a related record never deactivates a rule
\* that has a member left in its many-valued priority field once the record
\* is gone, and sends no deactivation notification for it.
C19_MemberLeftStaysActive ==
    [][\A rec \in Related, pk \in Rules :
          (/\ DeleteRelated(rec)
           /\ \A name \in Range(ConnectedM2M(psf)) : m2m'[pk][name] # {})
          => /\ store'[pk].is_active = store[pk].is_active
             /\ \A k \in 1..Len(ev'.sent) : ev'.sent[k].rule # pk]_vars

\* ------------------------------------------------------------ Validation
\* A specification of a Validation alone: it is built from a mapping of up
\* to MaxCheckers fields, then looked up, iterated, measured and coerced to
\* a boolean in any order.
MaxCheckers == 3

Mappings ==
    UNION {[1..n -> [first : BOOLEAN, later : BOOLEAN]] : n \in 0..MaxCheckers}

\* names a caller looks up: the declared ones and one more
LookupNames == {CheckerNames[k] : k \in 1..(MaxCheckers + 1)}

InitValidation ==
    /\ psf = <<"domain", "cats">>
    /\ deactivate = TRUE
    /\ store = [pk \in Rules |-> NewRow(pk)]
    /\ m2m = [pk \in Rules |-> EmptyRels]
    /\ related = Related
    /\ handles = [h \in Handles |-> NoInstance]
    /\ ev = NoEvent
    /\ stream = <<>>
    /\ kwargs = NoKwargs
    /\ exclude = {}
    /\ mb = MbIdle
    /\ mv = NoMatch
    /\ \E mapping \in Mappings :
          vr = [NoValidation EXCEPT !.obj = ValidationNew(mapping)]

\* validation[item]
VGetItem(item) ==
    /\ LET g == getitem(vr.obj, item)
       IN  vr' = [obj |-> g.v,
                  seen |-> IF g.raised \/ item \in DOMAIN vr.seen THEN vr.seen
                           ELSE [f \in DOMAIN vr.seen \cup {item} |->
                                    IF f = item THEN g.value ELSE vr.seen[f]],
                  out |-> VOut("getitem", item, g.value, g.raised, g.hit,
                               <<>>, 0)]
    /\ UNCHANGED <<stream, kwargs, exclude, mb, mv>>
    /\ UNCHANGED ruleVars

\* list(validation)
VIter ==
    /\ vr' = [vr EXCEPT !.out = VOut("iter", "", FALSE, FALSE, FALSE,
                                     iter(vr.obj), 0)]
    /\ UNCHANGED <<stream, kwargs, exclude, mb, mv>>
    /\ UNCHANGED ruleVars

\* len(validation)
VLen ==
    /\ vr' = [vr EXCEPT !.out = VOut("len", "", FALSE, FALSE, FALSE, <<>>,
                                     len(vr.obj))]
    /\ UNCHANGED <<stream, kwargs, exclude, mb, mv>>
    /\ UNCHANGED ruleVars

\* bool(validation)
VBool ==
    /\ LET b == nonzero(vr.obj)
       IN  vr' = [vr EXCEPT !.obj = b.v,
                            !.out = VOut("bool", "", b.value, FALSE, FALSE,
                                         <<>>, 0)]
    /\ UNCHANGED <<stream, kwargs, exclude, mb, mv>>
    /\ UNCHANGED ruleVars

NextValidation ==
    \/ \E item \in LookupNames : VGetItem(item)
    \/ VIter
    \/ VLen
    \/ VBool

SpecValidation == InitValidation /\ [][NextValidation]_vars

\* ------------------------------------------ properties of a Validation
\* C11: whatever lookups, iterations and boolean coercions were made, the
\* checker of every declared field was called at most once, and a lookup of
\* a field returns what the first lookup of that field returned.
C11_CheckerCalledOnce ==
    /\ \A k \in 1..Len(vr.obj.checkers) : vr.obj.calls[k] <= 1
    /\ (vr.out.op = "getitem" /\ ~vr.out.raised) =>
          vr.out.value = vr.seen[vr.out.item]

\* a repeated lookup of a field whose checker would answer differently on a
\* second call
C11_Witness ==
    /\ vr.out.op = "getitem"
    /\ vr.out.hit
    /\ LET k == KeyIndex(vr.obj, vr.out.item)
       IN  /\ vr.obj.checkers[k].first # vr.obj.checkers[k].later
           /\ vr.out.value = vr.obj.checkers[k].first

\* C12 as stated: after a boolean coercion every declared field has a cached
\* verdict, also a field declared after the first false one, and the value
\* returned is the conjunction of the verdicts of all declared fields.
C12_CoercionEvaluatesAll ==
    vr.out.op = "bool" =>
        /\ DOMAIN vr.obj.validation = Range(iter(vr.obj))
        /\ vr.out.value =
              (\A f \in DOMAIN vr.obj.validation : vr.obj.validation[f])

====
